---- MODULE Spec2Model ----
(***************************************************************************)
(* cloudflare-backup: model of main.go (the api-token variant, lines       *)
(* 1-243).  The program is one sequential run: prepare the output          *)
(* directory, check the token, list the zones, and export every zone to    *)
(* {outputDir}/{zone.Name}.txt.  Text is modelled character by character:  *)
(* a string is a sequence of one-character strings, so that line           *)
(* terminators and separators are what the code writes.  The api-key       *)
(* variant of the file (lines 245-363) only logs the records and writes no *)
(* file; it is not modelled.                                               *)
(***************************************************************************)
EXTENDS Integers, Sequences, FiniteSets, TLC

(***************************************************************************)
(* Bounds of the explored inputs.                                          *)
(***************************************************************************)
\* longest zone list a zone-listing response carries
MaxZones == 2
\* longest record list of the rendering specification
MaxRenderRecords == 2

(***************************************************************************)
(* String literals of handleZone.                                          *)
(***************************************************************************)
separator ==
    <<"\t", "\t">>

CRLF ==
    <<"\r", "\n">>

HeaderRule ==
    <<"#", "\r", "\n">>

HeaderTitle ==
    <<"#", " ", "D", "N", "S", " ", "z", "o", "n", "e", " ", "b", "a", "c", "k", "u", "p",
      " ", "f", "o", "r", " ">>

HeaderCreated ==
    <<"#", " ", "D", "o", "m", "a", "i", "n", " ", "c", "r", "e", "a", "t", "e", "d", " ",
      "o", "n", ":", " ">>

HeaderActivated ==
    <<"#", " ", "D", "o", "m", "a", "i", "n", " ", "a", "c", "t", "i", "v", "a", "t", "e",
      "d", " ", "o", "n", ":", " ">>

HeaderModified ==
    <<"#", " ", "D", "o", "m", "a", "i", "n", " ", "l", "a", "s", "t", " ", "m", "o", "d",
      "i", "f", "i", "e", "d", " ", "o", "n", ":", " ">>

ColName ==
    <<"#", " ", "N", "a", "m", "e">>

ColTTL ==
    <<"T", "T", "L">>

ColType ==
    <<"T", "y", "p", "e">>

ColProxied ==
    <<"P", "r", "o", "x", "i", "e", "d">>

ColValue ==
    <<"V", "a", "l", "u", "e", "\r", "\n">>

NoProxyString ==
    <<"N", "O", "_", "P", "R", "O", "X", "Y">>

ProxyString ==
    <<"P", "R", "O", "X", "Y">>

PageRulesHeader ==
    <<"#", "\r", "\n", "#", " ", "P", "a", "g", "e", " ", "r", "u", "l", "e", "s", "\r",
      "\n">>

NoPageRules ==
    <<"#", " ", "(", "n", "o", " ", "p", "a", "g", "e", " ", "r", "u", "l", "e", "s", ")",
      "\r", "\n">>

RulePrefix ==
    <<"#", " ">>

TxtSuffix ==
    <<".", "t", "x", "t">>

(***************************************************************************)
(* Conversions used by handleZone.                                         *)
(***************************************************************************)
DigitChars ==
    <<"0", "1", "2", "3", "4", "5", "6", "7", "8", "9">>

\* strconv.FormatUint(n, 10)
RECURSIVE FormatUint(_)
FormatUint(n) ==
    IF n < 10 THEN <<DigitChars[n + 1]>>
    ELSE FormatUint(n \div 10) \o <<DigitChars[(n % 10) + 1]>>

\* encoding/json's rendering of an int field
FormatInt(n) ==
    IF n < 0 THEN <<"-">> \o FormatUint(0 - n) ELSE FormatUint(n)

\* the concatenation of a sequence of strings
RECURSIVE Concat(_)
Concat(ss) ==
    IF ss = <<>> THEN <<>> ELSE Head(ss) \o Concat(Tail(ss))

\* encoding/json's escaping of one character of a string value
JsonEscapeChar(c) ==
    CASE c = "\"" -> <<"\\", "\"">>
      [] c = "\\" -> <<"\\", "\\">>
      [] c = "\n" -> <<"\\", "n">>
      [] c = "\r" -> <<"\\", "r">>
      [] c = "\t" -> <<"\\", "t">>
      [] c = "<" -> <<"\\", "u", "0", "0", "3", "c">>
      [] c = ">" -> <<"\\", "u", "0", "0", "3", "e">>
      [] c = "&" -> <<"\\", "u", "0", "0", "2", "6">>
      [] OTHER -> <<c>>

JsonString(s) ==
    <<"\"">> \o Concat([k \in 1..Len(s) |-> JsonEscapeChar(s[k])]) \o <<"\"">>

\* a JSON array of already encoded elements; a nil slice encodes as null
JsonArray(slice, encoded) ==
    IF slice.nil THEN <<"n", "u", "l", "l">>
    ELSE <<"[">>
         \o Concat([k \in 1..Len(encoded) |->
                      IF k = 1 THEN encoded[k] ELSE <<",">> \o encoded[k]])
         \o <<"]">>

JsonKey(name) ==
    JsonString(name) \o <<":">>

\* pageRuleTargets
JsonTarget(t) ==
    <<"{">> \o JsonKey(<<"t", "a", "r", "g", "e", "t">>) \o JsonString(t.Target)
    \o <<",">> \o JsonKey(<<"c", "o", "n", "s", "t", "r", "a", "i", "n", "t">>)
    \o <<"{">> \o JsonKey(<<"o", "p", "e", "r", "a", "t", "o", "r">>)
    \o JsonString(t.Operator)
    \o <<",">> \o JsonKey(<<"v", "a", "l", "u", "e">>) \o JsonString(t.Value)
    \o <<"}", "}">>

\* the interface{} value of a page rule action
JsonValue(v) ==
    CASE v.kind = "string" -> JsonString(v.str)
      [] v.kind = "bool" -> IF v.b THEN <<"t", "r", "u", "e">>
                            ELSE <<"f", "a", "l", "s", "e">>
      [] OTHER -> <<"n", "u", "l", "l">>

\* pageRuleActions
JsonAction(a) ==
    <<"{">> \o JsonKey(<<"i", "d">>) \o JsonString(a.ID)
    \o <<",">> \o JsonKey(<<"v", "a", "l", "u", "e">>) \o JsonValue(a.Value)
    \o <<"}">>

\* json.Marshal of a pageRule, fields in declaration order
JsonPageRule(r) ==
    <<"{">> \o JsonKey(<<"i", "d">>) \o JsonString(r.ID)
    \o <<",">> \o JsonKey(<<"t", "a", "r", "g", "e", "t", "s">>)
    \o JsonArray(r.Targets,
                 [k \in 1..Len(r.Targets.elems) |-> JsonTarget(r.Targets.elems[k])])
    \o <<",">> \o JsonKey(<<"a", "c", "t", "i", "o", "n", "s">>)
    \o JsonArray(r.Actions,
                 [k \in 1..Len(r.Actions.elems) |-> JsonAction(r.Actions.elems[k])])
    \o <<",">> \o JsonKey(<<"p", "r", "i", "o", "r", "i", "t", "y">>)
    \o FormatInt(r.Priority)
    \o <<",">> \o JsonKey(<<"s", "t", "a", "t", "u", "s">>) \o JsonString(r.Status)
    \o <<",">> \o JsonKey(<<"m", "o", "d", "i", "f", "i", "e", "d", "_", "o", "n">>)
    \o JsonString(r.ModifiedOn)
    \o <<",">> \o JsonKey(<<"c", "r", "e", "a", "t", "e", "d", "_", "o", "n">>)
    \o JsonString(r.CreatedOn)
    \o <<"}">>

\* json.Encoder.Encode: the value's JSON followed by a newline character
EncodeLine(r) ==
    JsonPageRule(r) \o <<"\n">>

\* the text of the first WriteString of handleZone
HeaderText(z) ==
    HeaderRule
    \o HeaderTitle \o z.Name \o CRLF
    \o HeaderCreated \o z.CreatedOn \o CRLF
    \o HeaderActivated \o z.ActivatedOn \o CRLF
    \o HeaderModified \o z.ModifiedOn \o CRLF
    \o HeaderRule
    \o ColName \o separator \o ColTTL \o separator \o ColType \o separator
    \o ColProxied \o separator \o ColValue

proxiedString(record) ==
    IF record.Proxied THEN ProxyString ELSE NoProxyString

\* RecordLine with the TTL and type columns exchanged
RecordLine_TypeBeforeTTL(record) ==
    record.Name \o separator \o record.Type \o separator
    \o FormatUint(record.TTL) \o separator \o proxiedString(record) \o separator
    \o record.Content \o CRLF

\* the line written for one DNS record
RecordLine(record) ==
    record.Name \o separator \o FormatUint(record.TTL) \o separator
    \o record.Type \o separator \o proxiedString(record) \o separator
    \o record.Content \o CRLF

\* path.Join(outputDir, zone.Name + ".txt"), as the key of the file in outputDir
FileName(z) ==
    z.Name \o TxtSuffix

(***************************************************************************)
(* The inputs explored: what the flags, the file system and the server     *)
(* may hand to the program.                                                *)
(***************************************************************************)
\* three zones; ZoneC carries the name of ZoneA under another identifier
ZoneA ==
    [ID |-> <<"1">>, Name |-> <<"a">>, ModifiedOn |-> <<"7">>,
     ActivatedOn |-> <<"6">>, CreatedOn |-> <<"5">>]

ZoneB ==
    [ID |-> <<"2">>, Name |-> <<"b">>, ModifiedOn |-> <<"9">>,
     ActivatedOn |-> <<"8">>, CreatedOn |-> <<"5">>]

ZoneC ==
    [ID |-> <<"3">>, Name |-> <<"a">>, ModifiedOn |-> <<"4">>,
     ActivatedOn |-> <<"4">>, CreatedOn |-> <<"4">>]

ZoneSet ==
    {ZoneA, ZoneB, ZoneC}

\* the result arrays of a listing: every zone at most once, in any order
ZoneLists ==
    UNION {{zs \in [1..n -> ZoneSet] :
              \A a, b \in 1..n : zs[a] = zs[b] => a = b} : n \in 0..MaxZones}

\* the counts an envelope may report: the server's counts are fields of their
\* own, not derived from the result array
ReportedCounts ==
    {MaxZones, MaxZones + 1}

\* the decoded bodies of the zone listing: pages of zones, and the envelope of
\* a refused request, which carries success = false and no result
ZonesResponses ==
    {[Success |-> TRUE, Count |-> c, TotalCount |-> t, Zones |-> zs] :
        zs \in ZoneLists, c \in ReportedCounts, t \in ReportedCounts}
    \cup {[Success |-> FALSE, Count |-> 0, TotalCount |-> 0, Zones |-> <<>>]}

RecordA ==
    [Name |-> <<"a">>, Type |-> <<"A">>, Content |-> <<"1", ".", "2">>,
     Proxied |-> TRUE, TTL |-> 300]

RecordB ==
    [Name |-> <<"m", ".", "a">>, Type |-> <<"M", "X">>, Content |-> <<"x">>,
     Proxied |-> FALSE, TTL |-> 1]

\* the decoded bodies of a dns_records request: a complete page, a page that
\* reports more records in total than it carries (the case of a zone with more
\* than per_page records), and the envelope of a refused request
DNSResponses ==
    {[Success |-> TRUE, Count |-> 2, TotalCount |-> 2,
      DNSRecords |-> <<RecordA, RecordB>>],
     [Success |-> TRUE, Count |-> 2, TotalCount |-> 3,
      DNSRecords |-> <<RecordA, RecordB>>],
     [Success |-> FALSE, Count |-> 0, TotalCount |-> 0, DNSRecords |-> <<>>]}

\* the records of the rendering specification: names, contents, TTLs and
\* proxy flags of every kind, among them values with the characters the file
\* format itself uses
RenderRecords ==
    [Name : {<<"a">>, <<"#">>}, Type : {<<"A">>},
     Content : {<<"1", ".", "2">>, <<"\t", "\t">>, <<"\r", "\n">>},
     Proxied : BOOLEAN, TTL : {1, 300}]

RenderRecordLists ==
    UNION {[1..n -> RenderRecords] : n \in 0..MaxRenderRecords}

RenderDNSResponses ==
    {[Success |-> TRUE, Count |-> Len(rs), TotalCount |-> Len(rs),
      DNSRecords |-> rs] : rs \in RenderRecordLists}

NilSlice ==
    [nil |-> TRUE, elems |-> <<>>]

Slice(elems) ==
    [nil |-> FALSE, elems |-> elems]

RuleA ==
    [ID |-> <<"r">>,
     Targets |-> Slice(<<[Target |-> <<"u", "r", "l">>,
                          Operator |-> <<"m">>, Value |-> <<"a", "/", "*">>]>>),
     Actions |-> Slice(<<[ID |-> <<"s", "s", "l">>,
                          Value |-> [kind |-> "string", str |-> <<"o", "n">>,
                                     b |-> FALSE]]>>),
     Priority |-> 1, Status |-> <<"o", "k">>,
     ModifiedOn |-> <<"3">>, CreatedOn |-> <<"2">>]

\* the decoded bodies of a pagerules request
PageRulesResponses ==
    {[Success |-> TRUE, PageRules |-> <<>>],
     [Success |-> TRUE, PageRules |-> <<RuleA>>],
     [Success |-> FALSE, PageRules |-> <<>>]}

\* the content of a backup file left by an earlier run
OldContent ==
    <<"o", "l", "d">>

EmptyFS ==
    [n \in {} |-> <<>>]

\* the files of an existing output directory when the run starts: the backup
\* of ZoneA's name written by an earlier run
InitialFiles ==
    {[n \in {FileName(ZoneA)} |-> OldContent]}

\* how a get that returns an error fails: no response (http.Client.Do or
\* ReadAll) or a body that json.Unmarshal rejects
GetErrors ==
    {"transport", "decode"}

\* the part of s a failed WriteString may have written
PartialWrites(s) ==
    {SubSeq(s, 1, n) : n \in {0, Len(s) \div 2}}

(***************************************************************************)
(* The state of one run.                                                   *)
(***************************************************************************)
VARIABLES
    pc,             \* the statement of main or handleZone that runs next
    status,         \* "running", "fatal" (log.Fatal), "panic" or "done"
    log,            \* the lines written with the log package
    apiToken,       \* the -api-token flag
    dirKind,        \* what the outputDir path is: "absent", "dir" or "file"
    dirKind0,       \* what it was when the run started
    fs,             \* the files of outputDir: file name -> content
    result,         \* main's zonesResult
    i,              \* the position of main's loop in result.Zones
    dnsResult,      \* handleZone's dnsRecordsResult
    pageRuleResult, \* handleZone's pageRulesResult
    outputFile,     \* handleZone's file handle (0: none)
    k,              \* the position of handleZone's loops
    err,            \* the error handleZone returns
    openFiles,      \* the file handles the process holds open
    requests,       \* the requests sent to the API so far
    fsLog,          \* the directory and file creations so far
    handed,         \* the zones passed to handleZone so far
    fsAtCall,       \* the files of outputDir when handleZone was last called
    exported        \* the exports that returned nil: zone position, file, content

vars ==
    <<pc, status, log, apiToken, dirKind, dirKind0, fs, result, i, dnsResult,
      pageRuleResult, outputFile, k, err, openFiles, requests, fsLog, handed,
      fsAtCall, exported>>

NoError ==
    "nil"

FsPut(f, name, content) ==
    [n \in DOMAIN f \cup {name} |-> IF n = name THEN content ELSE f[n]]

Line(msg, arg) ==
    [msg |-> msg, arg |-> arg]

\* the zero values of the result structs
ZeroZonesResult ==
    [Success |-> FALSE, Count |-> 0, TotalCount |-> 0, Zones |-> <<>>]

ZeroDNSResult ==
    [Success |-> FALSE, Count |-> 0, TotalCount |-> 0, DNSRecords |-> <<>>]

ZeroPageRulesResult ==
    [Success |-> FALSE, PageRules |-> <<>>]

\* the request get sends: the path and the query string
Request(path, params) ==
    [path |-> path, params |-> params]

\* the parameter of the running handleZone call
zone ==
    handed[Len(handed)]

Init ==
    /\ pc = "stat"
    /\ status = "running"
    /\ log = <<Line("cloudflare-backup", <<>>)>>
    /\ apiToken \in {<<>>, <<"t">>}
    /\ dirKind \in {"absent", "dir", "file"}
    /\ dirKind0 = dirKind
    /\ fs \in IF dirKind = "dir" THEN InitialFiles ELSE {EmptyFS}
    /\ result = ZeroZonesResult
    /\ i = 0
    /\ dnsResult = ZeroDNSResult
    /\ pageRuleResult = ZeroPageRulesResult
    /\ outputFile = 0
    /\ k = 0
    /\ err = NoError
    /\ openFiles = {}
    /\ requests = <<>>
    /\ fsLog = <<>>
    /\ handed = <<>>
    /\ fsAtCall = fs
    /\ exported = <<>>

(***************************************************************************)
(* main.                                                                   *)
(***************************************************************************)
NotDirMessage ==
    "The provided output path must be a directory, not a file."

TokenMessage ==
    "You must provide a CloudFlare API token with the -api-token flag."

TooManyMessage ==
    "This program currently does not support accounts with more than 50 zones."

\* log.Fatalf / log.Fatalln: the message, then os.Exit(1)
Fatal(msg) ==
    /\ log' = Append(log, Line(msg, <<>>))
    /\ status' = "fatal"
    /\ pc' = "exit"

\* panic(err): the process ends with the error dump
Panic ==
    /\ status' = "panic"
    /\ pc' = "exit"
    /\ log' = log

\* os.Stat(outputDir), os.Mkdir when the path does not exist, and the IsDir check
Main_PrepareOutputDir ==
    /\ pc = "stat"
    /\ \/ /\ dirKind = "absent"
          /\ \/ /\ dirKind' = "dir"
                /\ fsLog' = Append(fsLog, [op |-> "mkdir", idx |-> 0])
                /\ pc' = "token"
                /\ UNCHANGED <<status, log>>
             \/ /\ Panic
                /\ UNCHANGED <<dirKind, fsLog>>
       \/ /\ dirKind = "dir"
          /\ pc' = "token"
          /\ UNCHANGED <<status, log, dirKind, fsLog>>
       \/ /\ dirKind = "file"
          /\ Fatal(NotDirMessage)
          /\ UNCHANGED <<dirKind, fsLog>>
       \/ /\ Panic
          /\ UNCHANGED <<dirKind, fsLog>>
    /\ UNCHANGED <<apiToken, dirKind0, fs, result, i, dnsResult, pageRuleResult,
                   outputFile, k, err, openFiles, requests, handed, fsAtCall,
                   exported>>

\* if apiToken == "" { log.Fatalf(...) }
Main_CheckToken ==
    /\ pc = "token"
    /\ IF apiToken = <<>>
       THEN Fatal(TokenMessage)
       ELSE pc' = "list" /\ UNCHANGED <<status, log>>
    /\ UNCHANGED <<apiToken, dirKind, dirKind0, fs, result, i, dnsResult,
                   pageRuleResult, outputFile, k, err, openFiles, requests, fsLog,
                   handed, fsAtCall, exported>>

\* TooManyZones comparing with < instead of !=
TooManyZones_OnlyFewer(r) ==
    r.Count < r.TotalCount

\* result.ResultInfo.Count != result.ResultInfo.TotalCount
TooManyZones(r) ==
    r.Count # r.TotalCount

\* get("zones", per_page=50) and the page-count check
Main_ListZones ==
    /\ pc = "list"
    /\ requests' = Append(requests, Request(<<"zones">>, "per_page=50"))
    /\ \/ /\ \E e \in GetErrors : Panic
          /\ UNCHANGED result
       \/ \E r \in ZonesResponses :
            /\ result' = r
            /\ IF TooManyZones(r)
               THEN Fatal(TooManyMessage)
               ELSE pc' = "loop" /\ UNCHANGED <<status, log>>
    /\ UNCHANGED <<apiToken, dirKind, dirKind0, fs, i, dnsResult, pageRuleResult,
                   outputFile, k, err, openFiles, fsLog, handed, fsAtCall,
                   exported>>

\* RangeAt walking the slice from its end
RangeAt_Reversed(zs, n) ==
    zs[Len(zs) - n + 1]

\* the element the n-th iteration of range takes from zs
RangeAt(zs, n) ==
    zs[n]

\* one iteration of for _, zone := range result.Zones: log and call handleZone
Main_NextZone ==
    /\ pc = "loop"
    /\ i < Len(result.Zones)
    /\ i' = i + 1
    /\ log' = Append(log, Line("Processing %s...", RangeAt(result.Zones, i + 1).Name))
    /\ handed' = Append(handed, RangeAt(result.Zones, i + 1))
    /\ fsAtCall' = fs
    /\ dnsResult' = ZeroDNSResult
    /\ pageRuleResult' = ZeroPageRulesResult
    /\ pc' = "hz_dns"
    /\ UNCHANGED <<status, apiToken, dirKind, dirKind0, fs, result, outputFile, k,
                   err, openFiles, requests, fsLog, exported>>

\* the loop is over: log.Println("Done!")
Main_Done ==
    /\ pc = "loop"
    /\ i >= Len(result.Zones)
    /\ log' = Append(log, Line("Done!", <<>>))
    /\ status' = "done"
    /\ pc' = "exit"
    /\ UNCHANGED <<apiToken, dirKind, dirKind0, fs, result, i, dnsResult,
                   pageRuleResult, outputFile, k, err, openFiles, requests, fsLog,
                   handed, fsAtCall, exported>>

(***************************************************************************)
(* handleZone.                                                             *)
(***************************************************************************)
\* the file of the open handle after WriteString(text) wrote text
Written(text) ==
    FsPut(fs, FileName(zone), fs[FileName(zone)] \o text)

\* return err: the statement that runs next is the deferred Close, if any
ReturnErr(e) ==
    /\ err' = e
    /\ pc' = "hz_return"

\* get("zones/" + zone.ID + "/dns_records", per_page=100)
HZ_FetchDNS ==
    /\ pc = "hz_dns"
    /\ requests' = Append(requests,
                          Request(<<"zones", zone.ID, "dns_records">>, "per_page=100"))
    /\ \/ /\ \E e \in GetErrors : ReturnErr(e)
          /\ UNCHANGED dnsResult
       \/ /\ \E r \in DNSResponses : dnsResult' = r
          /\ pc' = "hz_rules"
          /\ UNCHANGED err
    /\ UNCHANGED <<status, log, apiToken, dirKind, dirKind0, fs, result, i,
                   pageRuleResult, outputFile, k, openFiles, fsLog, handed,
                   fsAtCall, exported>>

\* HZ_FetchPageRules with os.Create moved before the request
HZ_FetchPageRules_AfterCreate ==
    /\ pc = "hz_rules"
    /\ requests' = Append(requests,
                          Request(<<"zones", zone.ID, "pagerules">>, "order=priority"))
    /\ fs' = FsPut(fs, FileName(zone), <<>>)
    /\ \/ /\ \E e \in GetErrors : ReturnErr(e)
          /\ UNCHANGED pageRuleResult
       \/ /\ \E r \in PageRulesResponses : pageRuleResult' = r
          /\ pc' = "hz_create"
          /\ UNCHANGED err
    /\ UNCHANGED <<status, log, apiToken, dirKind, dirKind0, result, i,
                   dnsResult, outputFile, k, openFiles, fsLog, handed, fsAtCall,
                   exported>>

\* get("zones/" + zone.ID + "/pagerules", order=priority)
HZ_FetchPageRules ==
    /\ pc = "hz_rules"
    /\ requests' = Append(requests,
                          Request(<<"zones", zone.ID, "pagerules">>, "order=priority"))
    /\ \/ /\ \E e \in GetErrors : ReturnErr(e)
          /\ UNCHANGED pageRuleResult
       \/ /\ \E r \in PageRulesResponses : pageRuleResult' = r
          /\ pc' = "hz_create"
          /\ UNCHANGED err
    /\ UNCHANGED <<status, log, apiToken, dirKind, dirKind0, fs, result, i,
                   dnsResult, outputFile, k, openFiles, fsLog, handed, fsAtCall,
                   exported>>

\* os.Create: the file exists and is empty afterwards; defer outputFile.Close()
HZ_Create ==
    /\ pc = "hz_create"
    /\ \/ /\ fs' = FsPut(fs, FileName(zone), <<>>)
          /\ fsLog' = Append(fsLog, [op |-> "create", idx |-> i])
          /\ outputFile' = i
          /\ openFiles' = openFiles \cup {i}
          /\ pc' = "hz_header"
          /\ UNCHANGED err
       \/ /\ ReturnErr("create")
          /\ UNCHANGED <<fs, fsLog, outputFile, openFiles>>
    /\ UNCHANGED <<status, log, apiToken, dirKind, dirKind0, result, i, dnsResult,
                   pageRuleResult, k, requests, handed, fsAtCall, exported>>

\* the first WriteString: the comment header
HZ_WriteHeader ==
    /\ pc = "hz_header"
    /\ \/ /\ fs' = Written(HeaderText(zone))
          /\ pc' = "hz_records"
          /\ k' = 1
          /\ UNCHANGED err
       \/ /\ \E p \in PartialWrites(HeaderText(zone)) : fs' = Written(p)
          /\ ReturnErr("write")
          /\ UNCHANGED k
    /\ UNCHANGED <<status, log, apiToken, dirKind, dirKind0, result, i, dnsResult,
                   pageRuleResult, outputFile, openFiles, requests, fsLog, handed,
                   fsAtCall, exported>>

\* RecordsToWrite stopping one record early
RecordsToWrite_DropLast(r) ==
    SubSeq(r.DNSRecords, 1, Len(r.DNSRecords) - 1)

\* the records the loop of handleZone ranges over
RecordsToWrite(r) ==
    r.DNSRecords

\* one iteration of for _, record := range dnsResult.DNSRecords
HZ_WriteRecord ==
    /\ pc = "hz_records"
    /\ k <= Len(RecordsToWrite(dnsResult))
    /\ \/ /\ fs' = Written(RecordLine(RecordsToWrite(dnsResult)[k]))
          /\ k' = k + 1
          /\ UNCHANGED <<pc, err>>
       \/ /\ \E p \in PartialWrites(RecordLine(RecordsToWrite(dnsResult)[k])) :
                fs' = Written(p)
          /\ ReturnErr("write")
          /\ UNCHANGED k
    /\ UNCHANGED <<status, log, apiToken, dirKind, dirKind0, result, i, dnsResult,
                   pageRuleResult, outputFile, openFiles, requests, fsLog, handed,
                   fsAtCall, exported>>

\* after the record loop: the page rule section header and, for an empty
\* rule list, the placeholder line
HZ_WritePageRulesHeader ==
    /\ pc = "hz_records"
    /\ k > Len(RecordsToWrite(dnsResult))
    /\ \/ /\ fs' = Written(PageRulesHeader
                           \o IF Len(pageRuleResult.PageRules) = 0
                              THEN NoPageRules ELSE <<>>)
          /\ pc' = "hz_pagerules"
          /\ k' = 1
          /\ UNCHANGED err
       \/ /\ \E p \in PartialWrites(PageRulesHeader) : fs' = Written(p)
          /\ ReturnErr("write")
          /\ UNCHANGED k
       \/ /\ Len(pageRuleResult.PageRules) = 0
          /\ \E p \in PartialWrites(NoPageRules) :
                fs' = Written(PageRulesHeader \o p)
          /\ ReturnErr("write")
          /\ UNCHANGED k
    /\ UNCHANGED <<status, log, apiToken, dirKind, dirKind0, result, i, dnsResult,
                   pageRuleResult, outputFile, openFiles, requests, fsLog, handed,
                   fsAtCall, exported>>

\* one iteration of for _, pageRule := range pageRuleResult.PageRules:
\* WriteString("# ") and e.Encode(pageRule)
HZ_WritePageRule ==
    /\ pc = "hz_pagerules"
    /\ k <= Len(pageRuleResult.PageRules)
    /\ \/ /\ fs' = Written(RulePrefix \o EncodeLine(pageRuleResult.PageRules[k]))
          /\ k' = k + 1
          /\ UNCHANGED <<pc, err>>
       \/ /\ \E p \in PartialWrites(RulePrefix) : fs' = Written(p)
          /\ ReturnErr("write")
          /\ UNCHANGED k
       \/ /\ \E p \in PartialWrites(EncodeLine(pageRuleResult.PageRules[k])) :
                fs' = Written(RulePrefix \o p)
          /\ ReturnErr("write")
          /\ UNCHANGED k
    /\ UNCHANGED <<status, log, apiToken, dirKind, dirKind0, result, i, dnsResult,
                   pageRuleResult, outputFile, openFiles, requests, fsLog, handed,
                   fsAtCall, exported>>

\* DeferredClose without the defer statement
DeferredClose_Missing(open, h) ==
    open

\* defer outputFile.Close(): the handles open once handleZone has returned
DeferredClose(open, h) ==
    open \ {h}

\* Aborts with the error of handleZone ignored
Aborts_Never(e) ==
    FALSE

\* if err != nil { panic(err) }
Aborts(e) ==
    e # NoError

\* handleZone returns (return nil after the page rule loop, or an earlier
\* return err): the deferred Close runs and main checks the error
HZ_Return ==
    /\ \/ pc = "hz_return"
       \/ pc = "hz_pagerules" /\ k > Len(pageRuleResult.PageRules)
    /\ openFiles' = DeferredClose(openFiles, outputFile)
    /\ outputFile' = 0
    /\ IF Aborts(err)
       THEN Panic /\ UNCHANGED <<exported, err>>
       ELSE /\ pc' = "loop"
            /\ err' = NoError
            /\ exported' = IF err = NoError
                           THEN Append(exported,
                                       [idx |-> i, file |-> FileName(zone),
                                        content |-> fs[FileName(zone)]])
                           ELSE exported
            /\ UNCHANGED <<status, log>>
    /\ UNCHANGED <<apiToken, dirKind, dirKind0, fs, result, i, dnsResult,
                   pageRuleResult, k, requests, fsLog, handed, fsAtCall>>

Next ==
    \/ Main_PrepareOutputDir
    \/ Main_CheckToken
    \/ Main_ListZones
    \/ Main_NextZone
    \/ Main_Done
    \/ HZ_FetchDNS
    \/ HZ_FetchPageRules
    \/ HZ_Create
    \/ HZ_WriteHeader
    \/ HZ_WriteRecord
    \/ HZ_WritePageRulesHeader
    \/ HZ_WritePageRule
    \/ HZ_Return

Spec ==
    Init /\ [][Next]_vars

(***************************************************************************)
(* The rendering specification: handleZone from the point where both       *)
(* requests have returned, for record lists over RenderRecords.            *)
(***************************************************************************)
InitRender ==
    /\ pc = "hz_create"
    /\ status = "running"
    /\ log = <<Line("cloudflare-backup", <<>>), Line("Processing %s...", ZoneA.Name)>>
    /\ apiToken = <<"t">>
    /\ dirKind = "dir"
    /\ dirKind0 = "dir"
    /\ fs \in InitialFiles
    /\ result = [Success |-> TRUE, Count |-> 1, TotalCount |-> 1, Zones |-> <<ZoneA>>]
    /\ i = 1
    /\ dnsResult \in RenderDNSResponses
    /\ pageRuleResult \in PageRulesResponses
    /\ outputFile = 0
    /\ k = 0
    /\ err = NoError
    /\ openFiles = {}
    /\ requests = <<Request(<<"zones">>, "per_page=50"),
                    Request(<<"zones", ZoneA.ID, "dns_records">>, "per_page=100"),
                    Request(<<"zones", ZoneA.ID, "pagerules">>, "order=priority")>>
    /\ fsLog = <<>>
    /\ handed = <<ZoneA>>
    /\ fsAtCall = fs
    /\ exported = <<>>

NextRender ==
    \/ HZ_Create
    \/ HZ_WriteHeader
    \/ HZ_WriteRecord
    \/ HZ_WritePageRulesHeader
    \/ HZ_WritePageRule
    \/ HZ_Return

SpecRender ==
    InitRender /\ [][NextRender]_vars

(***************************************************************************)
(* Reading a backup file back: the helpers of the properties below.        *)
(***************************************************************************)
\* the positions where sep occurs in s
Matches(s, sep) ==
    {p \in 1..(Len(s) - Len(sep) + 1) : SubSeq(s, p, p + Len(sep) - 1) = sep}

\* strings.Split(s, sep): the pieces of s from position start on, cut at the
\* leftmost occurrences of sep, which are among the positions ms
RECURSIVE SplitFrom(_, _, _, _)
SplitFrom(s, sep, start, ms) ==
    LET rest == {p \in ms : p >= start}
    IN  IF rest = {} THEN <<SubSeq(s, start, Len(s))>>
        ELSE LET p == CHOOSE q \in rest : \A r \in rest : q <= r
             IN  <<SubSeq(s, start, p - 1)>>
                 \o SplitFrom(s, sep, p + Len(sep), ms)

SplitOn(s, sep) ==
    SplitFrom(s, sep, 1, Matches(s, sep))

RECURSIVE SelectLines(_)
SelectLines(ls) ==
    IF ls = <<>> THEN <<>>
    ELSE IF Len(Head(ls)) = 0 \/ Head(ls)[1] = "#" THEN SelectLines(Tail(ls))
         ELSE <<Head(ls)>> \o SelectLines(Tail(ls))

\* the non-comment lines of a file, each split on the separator
ParsedRows(content) ==
    LET ls == SelectLines(SplitOn(content, CRLF))
    IN  [n \in 1..Len(ls) |-> SplitOn(ls[n], separator)]

DigitValue(c) ==
    CHOOSE d \in 0..9 : DigitChars[d + 1] = c

IsDecimal(s) ==
    /\ Len(s) > 0
    /\ \A n \in 1..Len(s) : \E d \in 0..9 : DigitChars[d + 1] = s[n]

RECURSIVE ParseDecimal(_)
ParseDecimal(s) ==
    IF Len(s) = 0 THEN 0
    ELSE 10 * ParseDecimal(SubSeq(s, 1, Len(s) - 1)) + DigitValue(s[Len(s)])

\* the row stands for the record: name, decimal TTL, type, proxy indicator, content
RowIsRecord(row, record) ==
    /\ Len(row) = 5
    /\ row[1] = record.Name
    /\ IsDecimal(row[2]) /\ ParseDecimal(row[2]) = record.TTL
    /\ row[3] = record.Type
    /\ row[4] = (IF record.Proxied THEN <<"P", "R", "O", "X", "Y">>
                 ELSE <<"N", "O", "_", "P", "R", "O", "X", "Y">>)
    /\ row[5] = record.Content

RoundTrip(content, records) ==
    LET rows == ParsedRows(content)
    IN  /\ Len(rows) = Len(records)
        /\ \A n \in 1..Len(records) : RowIsRecord(rows[n], records[n])

\* every line of the text is terminated by CR LF
AllLinesEndCRLF(content) ==
    /\ Len(content) >= 2
    /\ content[Len(content)] = "\n"
    /\ \A n \in 1..Len(content) :
          content[n] = "\n" => (n > 1 /\ content[n - 1] = "\r")

\* the complete text of a zone's file
ZoneFileText(z, dns, rules) ==
    HeaderText(z)
    \o Concat([n \in 1..Len(dns.DNSRecords) |-> RecordLine(dns.DNSRecords[n])])
    \o PageRulesHeader
    \o (IF Len(rules.PageRules) = 0 THEN NoPageRules ELSE <<>>)
    \o Concat([n \in 1..Len(rules.PageRules) |->
                 RulePrefix \o EncodeLine(rules.PageRules[n])])

LastLine ==
    log[Len(log)]

Logged(msg) ==
    \E n \in 1..Len(log) : log[n].msg = msg

Created(idx) ==
    \E n \in 1..Len(fsLog) : fsLog[n] = [op |-> "create", idx |-> idx]

\* handleZone is about to return nil
ReturningNil ==
    pc = "hz_pagerules" /\ k > Len(pageRuleResult.PageRules) /\ err = NoError

(***************************************************************************)
(* Properties.                                                             *)
(***************************************************************************)
\* C1: a run started with an empty token ends fatally without any request
\* and without any effect on the output directory; a directory that did not
\* exist before the run does not exist after it.
C1_NoEffectWithoutToken ==
    (status = "fatal" /\ LastLine.msg = TokenMessage)
        => /\ requests = <<>>
           /\ fsLog = <<>>
           /\ dirKind = dirKind0

\* C2: a zone listing whose count differs from its total count ends the run
\* with the "too many zones" message, before any per-zone request and without
\* any file being created, truncated or written.
C2_TooManyZonesStopsRun ==
    result.Count # result.TotalCount
        => /\ status = "fatal"
           /\ LastLine.msg = TooManyMessage
           /\ Len(requests) = 1
           /\ requests[1].path = <<"zones">>
           /\ handed = <<>>
           /\ \A n \in 1..Len(fsLog) : fsLog[n].op # "create"
           /\ fs = fsAtCall
           /\ openFiles = {}

C2_Witness ==
    /\ status = "fatal"
    /\ result.Count > result.TotalCount
    /\ Len(result.Zones) = MaxZones
    /\ FileName(ZoneA) \in DOMAIN fs

\* C3 as stated: when the listing's count equals its total count, the zones
\* handed to the exporter are the listed zones in order and their number is
\* the reported count.
C3_HandedLengthIsCount ==
    status = "done"
        => /\ handed = result.Zones
           /\ Len(handed) = result.Count
           /\ result.Count = result.TotalCount

\* C3 amended: when the listing's count equals its total count the run is not
\* stopped by the listing, and the zones handed to the exporter are the
\* elements of the response's result array in the server's order, one call per
\* element, all of them when the run completes; their number is the reported
\* count when the reported count is the length of the result array.
C3_HandedInServerOrder ==
    (Len(requests) >= 1 /\ status # "panic" /\ result.Count = result.TotalCount)
        => /\ status # "fatal"
           /\ Len(handed) = i
           /\ handed = SubSeq(result.Zones, 1, i)
           /\ (status = "done"
                 => /\ handed = result.Zones
                    /\ (result.Count = Len(result.Zones)
                          => Len(handed) = result.TotalCount))

C3_Witness ==
    /\ status = "done"
    /\ Len(handed) = MaxZones
    /\ handed[1] # handed[2]
    /\ result.Count = Len(result.Zones)

\* C4: a response whose envelope has success = false is a failed request: no
\* file is written from its payload and completion is not reported.
C4_FailureEnvelopeAborts ==
    /\ openFiles # {}
          => result.Success /\ dnsResult.Success /\ pageRuleResult.Success
    /\ status = "done" => result.Success

\* C5: every line of the file of a completed zone export ends with CR LF.
C5_AllLinesCRLF ==
    \A n \in 1..Len(exported) : AllLinesEndCRLF(exported[n].content)

\* a record whose fields keep clear of the characters of the file format
PlainRecord(record) ==
    /\ \A f \in {record.Name, record.Type, record.Content} :
          \A n \in 1..Len(f) : f[n] \notin {"\t", "\r", "\n"}
    /\ Len(record.Name) = 0 \/ record.Name[1] # "#"

\* C6 as stated: for every list of DNS records, whatever their names, types,
\* contents, TTLs and proxy flags, the non-comment lines of the rendered file,
\* split on CR LF and on the separator, give each record's name, decimal TTL,
\* type, proxy indicator and content, one line per record, in order.
C6_RoundTripAllValues ==
    ReturningNil => RoundTrip(fs[FileName(zone)], dnsResult.DNSRecords)

\* C6 amended: the same for every list of DNS records whose names, types and
\* contents contain no tab, carriage return or line feed and whose names do
\* not begin with the comment marker.
C6_RoundTripPlainRecords ==
    (ReturningNil
     /\ \A n \in 1..Len(dnsResult.DNSRecords) : PlainRecord(dnsResult.DNSRecords[n]))
        => RoundTrip(fs[FileName(zone)], dnsResult.DNSRecords)

C6_Witness ==
    /\ ReturningNil
    /\ Len(dnsResult.DNSRecords) = MaxRenderRecords
    /\ \A n \in 1..Len(dnsResult.DNSRecords) : PlainRecord(dnsResult.DNSRecords[n])
    /\ dnsResult.DNSRecords[1].Proxied
    /\ ~dnsResult.DNSRecords[2].Proxied
    /\ dnsResult.DNSRecords[1].TTL # dnsResult.DNSRecords[2].TTL
    /\ RoundTrip(fs[FileName(zone)], dnsResult.DNSRecords)

\* C7 as stated: zones are exported in listed order; when the export of the
\* k-th zone fails nothing is requested or created for a later zone, every
\* earlier zone has its completely written file, closed, and "Done!" is not
\* logged; "Done!" is logged only when every listed zone was exported.
C7_Sequential ==
    /\ handed = SubSeq(result.Zones, 1, Len(handed))
    /\ Len(exported) <= Len(handed)
    /\ \A n \in 1..Len(exported) : exported[n].idx = n
    /\ ReturningNil
          => fs[FileName(zone)] = ZoneFileText(zone, dnsResult, pageRuleResult)
    /\ Logged("Done!")
          => /\ status = "done"
             /\ Len(exported) = Len(result.Zones)
    /\ (status = "panic" /\ i >= 1)
          => /\ ~Logged("Done!")
             /\ Len(handed) = i
             /\ Len(requests) <= 1 + (2 * i)
             /\ \A n \in 1..Len(fsLog) : fsLog[n].idx <= i
             /\ Len(exported) = i - 1
             /\ openFiles = {}

C7_FirstFailureAborts ==
    /\ C7_Sequential
    /\ (status = "panic" /\ i >= 1)
          => \A n \in 1..(i - 1) :
                 /\ exported[n].file \in DOMAIN fs
                 /\ fs[exported[n].file] = exported[n].content

\* C7 amended: as stated, except that the file of an earlier zone holds that
\* zone's completely written export only if no later zone up to the failing
\* one has the same name: the export of a zone creates or truncates the file
\* of its name.
C7_FirstFailureAbortsDistinctNames ==
    /\ C7_Sequential
    /\ (status = "panic" /\ i >= 1)
          => \A n \in 1..(i - 1) :
                 (\A m \in (n + 1)..i : result.Zones[m].Name # result.Zones[n].Name)
                     => /\ exported[n].file \in DOMAIN fs
                        /\ fs[exported[n].file] = exported[n].content

C7_Witness ==
    /\ status = "panic"
    /\ i = MaxZones
    /\ Len(result.Zones) > i - 1
    /\ Created(i)
    /\ Len(exported) = i - 1
    /\ result.Zones[1].Name # result.Zones[i].Name
    /\ fs[exported[1].file] = exported[1].content

\* C8: at most one file handle is open at any time, and the handle of a zone
\* is closed before the next request is sent for another zone and before the
\* run ends, whichever way handleZone returns.
C8_OneHandleClosedOnReturn ==
    /\ Cardinality(openFiles) <= 1
    /\ openFiles # {} => openFiles = {outputFile} /\ outputFile = i
    /\ pc \in {"stat", "token", "list", "loop", "hz_dns", "hz_rules", "hz_create",
               "exit"} => openFiles = {}

C8_Witness ==
    /\ status = "panic"
    /\ err = "write"
    /\ i = MaxZones
    /\ Created(i)
    /\ Created(i - 1)
    /\ openFiles = {}

\* C9: a dns_records response that reports fewer records on the page than in
\* total raises nothing: the export goes on, and the file holds the lines of
\* exactly the records of that response, in their order.
C9_TruncatedPageExported ==
    dnsResult.Count < dnsResult.TotalCount
        => /\ pc = "hz_rules" => status = "running" /\ err = NoError
           /\ status = "fatal" => FALSE
           /\ ReturningNil
                 => RoundTrip(fs[FileName(zone)], dnsResult.DNSRecords)

C9_Witness ==
    /\ dnsResult.Count < dnsResult.TotalCount
    /\ status = "done"
    /\ Len(exported) = i
    /\ i >= 1
    /\ Len(dnsResult.DNSRecords) >= 1

\* C10: the file of a zone is created or truncated only after the dns_records
\* request and the pagerules request of that zone have both returned without
\* error; when one of them fails the files are as they were when handleZone
\* was called.
C10_CreateAfterBothFetches ==
    /\ pc \in {"hz_dns", "hz_rules", "hz_create"} => fs = fsAtCall
    /\ err \in GetErrors => fs = fsAtCall /\ ~Created(i)
    /\ (i >= 1 /\ Created(i))
          => /\ Len(requests) >= 3
             /\ requests[Len(requests) - 1].path = <<"zones", zone.ID, "dns_records">>
             /\ requests[Len(requests)].path = <<"zones", zone.ID, "pagerules">>
             /\ err \notin GetErrors

C10_Witness ==
    /\ status = "panic"
    /\ err \in GetErrors
    /\ Len(requests) = 3
    /\ FileName(zone) \in DOMAIN fs
    /\ fs[FileName(zone)] = OldContent
====
